---- MODULE Spec2Model ----
(***************************************************************************)
(* Model of the TownTask image tools: tools/image_processor.py (background *)
(* removal strategies, best-result selection, sprite sheet assembly, frame *)
(* batch processing).                                                      *)
(*                                                                         *)
(* A pixel is a tuple <<r, g, b, a>> of 8-bit values.  An image is a       *)
(* record [height, width, px] with px a function from <<y, x>> (0-based,   *)
(* row first, as numpy indexes img_array[y, x]) to pixels.                 *)
(***************************************************************************)
EXTENDS Integers, Sequences, FiniteSets, TLC

VARIABLES
    nep50,       \* TRUE: numpy >= 2 scalar promotion (python int is weak), FALSE: legacy
    fs,          \* the file system: path -> content
    out_dir_ok,  \* the directory of the output path exists (a save or rename into it works)
    \* remove_background_flood_fill
    img_array,   \* the input array
    result,      \* the working copy
    visited,     \* visited[y, x]
    queue,       \* the deque of (y, x)
    fpc,         \* position: "idle", "loop", "done"
    \* remove_complex_background
    method_arg,  \* the method argument of the call
    method,      \* the local method: the argument, or the detected type for "auto"
    rcb_img,     \* img_array of remove_complex_background
    rcb_ret,     \* its return value
    rpc,         \* position: "idle", "open", "detect", "apply", "save", "done"
    \* process_single_cat_image
    mi,          \* index in methods of the next method to try
    best_result, \* the best ratio so far, <<transparent, total>>, or NoRatio
    best_method, \* the method that produced it, or None
    single_ret,  \* the return value
    spc,         \* position: "idle", "loop", "done"
    \* create_sprite_sheet
    image_paths,  \* the image_paths argument
    columns,      \* the columns argument
    frame_width,  \* the frame_width argument
    frame_height, \* the frame_height argument
    sprite_sheet, \* the canvas: [width, height, pastes]
    sh_i,         \* the loop index i
    sheet_ret,    \* the return value
    shpc,         \* position: "idle", "new", "loop", "save", "done"
    \* process_character_frames
    listing,          \* os.listdir(input_dir): the names, [stem, ext]
    sheet_path,       \* the output_path argument
    png_files,        \* the sorted PNG names
    processed_frames, \* the paths handed to create_sprite_sheet
    fr_i,             \* the loop index i
    temp_dir,         \* the directory temp_processed exists
    frames_ret,       \* the return value
    frpc,             \* position: "idle", "list", "loop", "assemble", "cleanup",
                      \* "done", "raised"
    \* cleanup_edges
    ce_pixels,   \* img, read through pixels
    ce_result,   \* the copy, written through result_pixels
    ce_pos,      \* how many interior pixels the two loops have handled
    cepc         \* position: "idle", "loop", "done"

envVars == <<nep50, fs, out_dir_ok>>
floodVars == <<img_array, result, visited, queue, fpc>>
rcbVars == <<method_arg, method, rcb_img, rcb_ret, rpc>>
singleVars == <<mi, best_result, best_method, single_ret, spc>>
sheetVars == <<image_paths, columns, frame_width, frame_height, sprite_sheet,
               sh_i, sheet_ret, shpc>>
framesVars == <<listing, sheet_path, png_files, processed_frames, fr_i, temp_dir,
                frames_ret, frpc>>
cleanVars == <<ce_pixels, ce_result, ce_pos, cepc>>
vars == <<envVars, floodVars, rcbVars, singleVars, sheetVars, framesVars, cleanVars>>

----------------------------------------------------------------------------
(* Bounds of the model *)

MaxPixels == 9
MaxSelPixels == 5
MaxSheetFrames == 10
MaxColumns == 4
MaxFrames == 17
MaxCleanWidth == 4

----------------------------------------------------------------------------
(* Pixels and 8-bit arithmetic *)

U8(n) == n % 256

White == <<255, 255, 255, 255>>
Black == <<0, 0, 0, 255>>
Gray200 == <<200, 200, 200, 255>>
Cleared == <<0, 0, 0, 0>>

Abs(n) == IF n < 0 THEN -n ELSE n
Min(a, b) == IF a < b THEN a ELSE b

\* File contents: no file, a file PIL cannot decode, or an RGBA image.
Absent == [kind |-> "absent"]
Corrupt == [kind |-> "corrupt"]
ImageFile(img) == [kind |-> "image", img |-> img]
NoImage == [height |-> 0, width |-> 0, px |-> <<>>]
None == "None"

Coords(h, w) == (0 .. h - 1) \X (0 .. w - 1)

Dims == {d \in (1 .. MaxPixels) \X (1 .. MaxPixels) : d[1] * d[2] <= MaxPixels}

\* Images of the given size whose pixels are drawn from base, with at most
\* one pixel replaced by odd.
ImagesOver(h, w, base, odd) ==
    LET C == Coords(h, w) IN
    {[height |-> h, width |-> w,
      px |-> [c \in C |-> IF c = s THEN odd ELSE f[c]]]
        : f \in [C -> base], s \in C \cup {<<h, w>>}}

\* A white image with a closed ring of black pixels around its white centre.
RingImage ==
    LET n == 2 + 3 IN
    [height |-> n, width |-> n,
     px |-> [c \in Coords(n, n) |->
               IF c = <<2, 2>> THEN White
               ELSE IF c[1] \in 1 .. 3 /\ c[2] \in 1 .. 3 THEN Black
               ELSE White]]

\* The variables of an operation that is not running
FloodIdle ==
    /\ img_array = NoImage /\ result = NoImage
    /\ visited = <<>> /\ queue = <<>> /\ fpc = "idle"

EnvIdle == fs = <<>> /\ out_dir_ok = TRUE

RcbIdle == method_arg = None /\ method = None /\ rcb_img = NoImage /\ rcb_ret = None /\ rpc = "idle"

SingleIdle ==
    /\ mi = 0 /\ best_result = <<>> /\ best_method = None
    /\ single_ret = None /\ spc = "idle"

NoSheet == [width |-> 0, height |-> 0, pastes |-> <<>>]

SheetIdle ==
    /\ image_paths = <<>> /\ columns = 0 /\ frame_width = 0 /\ frame_height = 0
    /\ sprite_sheet = NoSheet /\ sh_i = 0 /\ sheet_ret = None /\ shpc = "idle"

FramesIdle ==
    /\ listing = {} /\ sheet_path = None /\ png_files = <<>>
    /\ processed_frames = <<>> /\ fr_i = 0 /\ temp_dir = FALSE
    /\ frames_ret = None /\ frpc = "idle"

CleanIdle ==
    /\ ce_pixels = NoImage /\ ce_result = NoImage /\ ce_pos = 0 /\ cepc = "idle"

----------------------------------------------------------------------------
(* remove_background_flood_fill *)

IsLight(p) == p[1] > 180 /\ p[2] > 180 /\ p[3] > 180

\* range(height) x range(width) in loop order
RowMajor(h, w) == [k \in 1 .. h * w |-> <<(k - 1) \div w, (k - 1) % w>>]

IsEdge(c, h, w) == c[1] = 0 \/ c[1] = h - 1 \/ c[2] = 0 \/ c[2] = w - 1

EdgeQueue(h, w) ==
    LET onEdge(c) == IsEdge(c, h, w) IN SelectSeq(RowMajor(h, w), onEdge)

\* for dy in [-1, 0, 1]: for dx in [-1, 0, 1]
Offsets == << <<-1, -1>>, <<-1, 0>>, <<-1, 1>>,
              <<0, -1>>,  <<0, 0>>,  <<0, 1>>,
              <<1, -1>>,  <<1, 0>>,  <<1, 1>> >>

\* sum(abs(a - b) for a, b in zip(seed_color, neighbor_color)): each a - b is a
\* uint8 subtraction (wraps), abs of an unsigned value is the value, and the
\* running sum starts from the python int 0: int64 under legacy promotion,
\* uint8 (wrapping) under NEP 50.
ColorDiff(seed, nb, nep) ==
    LET s == U8(seed[1] - nb[1]) + U8(seed[2] - nb[2]) + U8(seed[3] - nb[3])
    IN  IF nep THEN U8(s) ELSE s

FloodStart(img) ==
    [result  |-> img,
     visited |-> [c \in Coords(img.height, img.width) |-> FALSE],
     queue   |-> EdgeQueue(img.height, img.width)]

\* One iteration of `while queue:` for a light, not yet visited pixel c.
\* seed_color = result[y, x][:3] is a view of result, not a copy: once line
\* 219 has stored [0, 0, 0, 0] the comparison of line 229 reads the cleared
\* value through it.
FloodClearAt(st, c, nep) ==
    LET h == st.result.height
        w == st.result.width
        vis == [st.visited EXCEPT ![c] = TRUE]
        res == [st.result EXCEPT !.px[c] = Cleared]
        seed_color == res.px[c]
        cand == [k \in 1 .. 9 |-> <<c[1] + Offsets[k][1], c[2] + Offsets[k][2]>>]
        similar(n) == /\ n \in Coords(h, w)
                      /\ ~vis[n]
                      /\ ColorDiff(seed_color, res.px[n], nep) < 60
    IN  [result  |-> res,
         visited |-> vis,
         queue   |-> Tail(st.queue) \o SelectSeq(cand, similar)]

\* Mutant: the popped pixel is cleared without being marked visited.
FloodPopNoMark(st, nep) ==
    LET c == Head(st.queue) IN
    IF st.visited[c]
    THEN [st EXCEPT !.queue = Tail(st.queue)]
    ELSE IF ~IsLight(st.result.px[c])
    THEN [st EXCEPT !.queue = Tail(st.queue), !.visited[c] = TRUE]
    ELSE [FloodClearAt(st, c, nep) EXCEPT !.visited[c] = FALSE]

\* Mutant: the lightness test of line 215 is dropped.
FloodPopNoWall(st, nep) ==
    LET c == Head(st.queue) IN
    IF st.visited[c]
    THEN [st EXCEPT !.queue = Tail(st.queue)]
    ELSE FloodClearAt(st, c, nep)

FloodPop(st, nep) ==
    LET c == Head(st.queue) IN
    IF st.visited[c]
    THEN [st EXCEPT !.queue = Tail(st.queue)]
    ELSE IF ~IsLight(st.result.px[c])
    THEN [st EXCEPT !.queue = Tail(st.queue), !.visited[c] = TRUE]
    ELSE FloodClearAt(st, c, nep)

RECURSIVE FloodRun(_, _)
FloodRun(st, nep) ==
    IF st.queue = <<>> THEN st.result ELSE FloodRun(FloodPop(st, nep), nep)

remove_background_flood_fill(img, nep) == FloodRun(FloodStart(img), nep)


----------------------------------------------------------------------------
(* Checkerboard detection and the per-pixel strategies *)

\* r + g + b on numpy uint8 scalars: each addition wraps modulo 256.
SumU8(p) == U8(U8(p[1] + p[2]) + p[3])

\* brightness = (r + g + b) / 3 is the float64 quotient of the wrapped sum.
\* abs(b1 - b2) < 30 and abs(b1 - b2) > 50 are decided on the wrapped sums
\* a, b: the float64 difference of a / 3 and b / 3 equals (a - b) / 3 except
\* that for |a - b| = 90 it rounds to 29.999999999999996 and for
\* |a - b| = 150 to 50.00000000000001 when the smaller sum is one of these.
RoundsBelow30 ==
    {8, 11, 14, 17, 20, 23, 50, 53, 56, 59, 62, 65, 68, 71, 74, 77, 80, 83,
     86, 89, 92, 95, 103, 106, 109, 112, 115, 118, 121, 124, 127, 130, 133,
     136, 139, 142, 145, 148, 151, 154, 157, 160, 163}
RoundsAbove50 == {44, 47, 98, 101, 104}

BrightnessDiffLt30(a, b) ==
    \/ 3 * 30 > Abs(a - b)
    \/ Abs(a - b) = 3 * 30 /\ Min(a, b) \in RoundsBelow30

BrightnessDiffGt50(a, b) ==
    \/ Abs(a - b) > 3 * 50
    \/ Abs(a - b) = 3 * 50 /\ Min(a, b) \in RoundsAbove50

\* img[y0:y1, x0:x1] for in-range bounds
SubImage(img, y0, y1, x0, x1) ==
    [height |-> y1 - y0, width |-> x1 - x0,
     px |-> [c \in Coords(y1 - y0, x1 - x0) |-> img.px[<<c[1] + y0, c[2] + x0>>]]]

\* Mutant: the cross-contrast test (cross_diff > 50) is dropped.
IsCheckerboardBlockNoCross(img, i, j) ==
    LET b0 == SumU8(img.px[<<i, j>>])
        b1 == SumU8(img.px[<<i, j + 1>>])
        b2 == SumU8(img.px[<<i + 1, j>>])
        b3 == SumU8(img.px[<<i + 1, j + 1>>])
    IN  BrightnessDiffLt30(b0, b3) /\ BrightnessDiffLt30(b1, b2)

\* is_checkerboard_block(img[i:i+2, j:j+2])
is_checkerboard_block(img, i, j) ==
    LET b0 == SumU8(img.px[<<i, j>>])
        b1 == SumU8(img.px[<<i, j + 1>>])
        b2 == SumU8(img.px[<<i + 1, j>>])
        b3 == SumU8(img.px[<<i + 1, j + 1>>])
    IN  /\ BrightnessDiffLt30(b0, b3)
        /\ BrightnessDiffLt30(b1, b2)
        /\ BrightnessDiffGt50(b0, b1)

\* Mutant: the block loops step by 1 instead of 2.
AllBlocks(h, w) ==
    {c \in Coords(h, w) : c[1] + 1 < h /\ c[2] + 1 < w}

\* range(0, height-1, 2) x range(0, width-1, 2): the even-aligned 2x2 blocks
EvenBlocks(h, w) ==
    {c \in Coords(h, w) : c[1] % 2 = 0 /\ c[2] % 2 = 0 /\ c[1] + 1 < h /\ c[2] + 1 < w}

has_checkerboard_pattern(corner) ==
    IF corner.height < 4 \/ corner.width < 4 THEN FALSE
    ELSE LET blocks == EvenBlocks(corner.height, corner.width)
             alternating_count ==
                 Cardinality({c \in blocks : is_checkerboard_block(corner, c[1], c[2])})
             total_checks == Cardinality(blocks)
         IN  total_checks > 0 /\ 2 * alternating_count > total_checks

\* img_array[0:10, 0:10], [0:10, -10:], [-10:, 0:10], [-10:, -10:]
CornerSamples(img) ==
    LET h == img.height
        w == img.width
        yl == Min(10, h)
        xl == Min(10, w)
        yh == IF h > 10 THEN h - 10 ELSE 0
        xh == IF w > 10 THEN w - 10 ELSE 0
    IN  << SubImage(img, 0, yl, 0, xl), SubImage(img, 0, yl, xh, w),
           SubImage(img, yh, h, 0, xl), SubImage(img, yh, h, xh, w) >>

CheckerboardScore(img) ==
    Cardinality({k \in 1 .. 4 : has_checkerboard_pattern(CornerSamples(img)[k])})

LightCount200(corner) ==
    Cardinality({c \in Coords(corner.height, corner.width) :
                   corner.px[c][1] > 200 /\ corner.px[c][2] > 200 /\ corner.px[c][3] > 200})

RECURSIVE SumOver(_, _)
SumOver(f, n) == IF n = 0 THEN 0 ELSE f[n] + SumOver(f, n - 1)

detect_background_type(img) ==
    LET cs == CornerSamples(img)
        light_pixel_count == SumOver([k \in 1 .. 4 |-> LightCount200(cs[k])], 4)
        total_pixels == SumOver([k \in 1 .. 4 |-> cs[k].height * cs[k].width], 4)
    IN  IF CheckerboardScore(img) >= 2 THEN "checkerboard"
        ELSE IF 10 * light_pixel_count > 7 * total_pixels THEN "white_gray"
        ELSE "edge_flood"

VeryLight(p) == p[1] > 220 /\ p[2] > 220 /\ p[3] > 220

\* background_mask of remove_checkerboard_background
BackgroundMask(img) ==
    {c \in Coords(img.height, img.width) :
        \/ VeryLight(img.px[c])
        \/ \E b \in EvenBlocks(img.height, img.width) :
              /\ c[1] \in {b[1], b[1] + 1} /\ c[2] \in {b[2], b[2] + 1}
              /\ is_checkerboard_block(img, b[1], b[2])}

remove_checkerboard_background(img) ==
    LET mask == BackgroundMask(img) IN
    [img EXCEPT !.px = [c \in Coords(img.height, img.width) |->
                           IF c \in mask THEN Cleared ELSE img.px[c]]]

Max3(a, b, c) == IF a >= b /\ a >= c THEN a ELSE IF b >= c THEN b ELSE c

\* max(abs(r-g), abs(g-b), abs(r-b)) on uint8 scalars: the differences wrap
ColorSimilarity(p) == Max3(U8(p[1] - p[2]), U8(p[2] - p[3]), U8(p[1] - p[3]))

\* color_similarity < tolerance and brightness > 180
IsWhiteGray(p, tolerance) ==
    ColorSimilarity(p) < tolerance /\ SumU8(p) > 3 * 180

remove_white_gray_background(img, tolerance) ==
    [img EXCEPT !.px = [c \in Coords(img.height, img.width) |->
                           IF IsWhiteGray(img.px[c], tolerance) THEN Cleared
                           ELSE img.px[c]]]

\* transparent_pixels / total_pixels, kept as the pair of the two counts
calculate_transparency_ratio(img) ==
    << Cardinality({c \in Coords(img.height, img.width) : img.px[c][4] = 0}),
       img.height * img.width >>

Methods == <<"checkerboard", "white_gray", "edge_flood">>

\* the dispatch of remove_complex_background, lines 29-40
ApplyMethod(img, m, nep) ==
    IF m = "checkerboard" THEN remove_checkerboard_background(img)
    ELSE IF m = "white_gray" THEN remove_white_gray_background(img, 40)
    ELSE IF m = "edge_flood" THEN remove_background_flood_fill(img, nep)
    ELSE remove_white_gray_background(img, 40)

----------------------------------------------------------------------------
(* remove_complex_background(image_path, output_path, method) *)

\* The whole call: None when the source cannot be opened or the result cannot
\* be saved, else the output path, with the processed image written there.
remove_complex_background(files, image_path, output_path, m, nep, dir_ok) ==
    IF files[image_path].kind # "image" THEN [ret |-> None, fs |-> files]
    ELSE LET img == files[image_path].img
             m1 == IF m = "auto" THEN detect_background_type(img) ELSE m
             out == ApplyMethod(img, m1, nep)
         IN  IF ~dir_ok THEN [ret |-> None, fs |-> files]
             ELSE [ret |-> output_path,
                   fs |-> [files EXCEPT ![output_path] = ImageFile(out)]]

\* Scenario B: 8x8, four 4x4 quadrants, white on one diagonal, black on the other.
ScenarioB ==
    LET n == 2 * 4 IN
    [height |-> n, width |-> n,
     px |-> [c \in Coords(n, n) |->
               IF (c[1] < 4) = (c[2] < 4) THEN White ELSE Black]]

\* A 4x4 checkerboard at pixel granularity.
PixelChecker ==
    [height |-> 4, width |-> 4,
     px |-> [c \in Coords(4, 4) |-> IF (c[1] + c[2]) % 2 = 0 THEN White ELSE Gray200]]

Uniform(h, w, p) == [height |-> h, width |-> w, px |-> [c \in Coords(h, w) |-> p]]

RemoveInputs ==
    UNION {ImagesOver(d[1], d[2], {White, Black}, Gray200) : d \in Dims}
        \cup {ScenarioB, PixelChecker, Uniform(4, 4, White), RingImage}

RcbInit ==
    /\ nep50 \in BOOLEAN
    /\ out_dir_ok \in BOOLEAN
    /\ \E f \in {Corrupt} \cup {ImageFile(i) : i \in RemoveInputs} :
          fs = [p \in {"src", "out"} |-> IF p = "src" THEN f ELSE Absent]
    /\ method_arg \in {"auto", "checkerboard", "white_gray", "edge_flood", "other"}
    /\ method = method_arg
    /\ rcb_img = NoImage /\ rcb_ret = None /\ rpc = "open"
    /\ FloodIdle /\ SingleIdle /\ SheetIdle /\ FramesIdle /\ CleanIdle

\* line 17 raises: lines 54-56
RcbOpenFail ==
    /\ rpc = "open" /\ fs["src"].kind # "image"
    /\ rcb_ret' = None /\ rpc' = "done"
    /\ UNCHANGED <<cleanVars, envVars, floodVars, singleVars, sheetVars, framesVars, method_arg, method, rcb_img>>

\* lines 17-22
RcbOpen ==
    /\ rpc = "open" /\ fs["src"].kind = "image"
    /\ rcb_img' = fs["src"].img
    /\ rpc' = IF method = "auto" THEN "detect" ELSE "apply"
    /\ UNCHANGED <<cleanVars, envVars, floodVars, singleVars, sheetVars, framesVars, method_arg, method, rcb_ret>>

\* lines 24-27
RcbDetect ==
    /\ rpc = "detect"
    /\ method' = detect_background_type(rcb_img)
    /\ rpc' = "apply"
    /\ UNCHANGED <<cleanVars, envVars, floodVars, singleVars, sheetVars, framesVars, method_arg, rcb_img, rcb_ret>>

RcbApplied ==
    /\ rcb_img' = ApplyMethod(rcb_img, method, nep50)
    /\ rpc' = "save"
    /\ UNCHANGED <<cleanVars, envVars, floodVars, singleVars, sheetVars, framesVars, method_arg, method, rcb_ret>>

\* lines 29-31
RcbCheckerboard == rpc = "apply" /\ method = "checkerboard" /\ RcbApplied
\* lines 32-34
RcbWhiteGray == rpc = "apply" /\ method = "white_gray" /\ RcbApplied
\* lines 35-37
RcbEdgeFlood == rpc = "apply" /\ method = "edge_flood" /\ RcbApplied
\* lines 38-40
RcbDefault ==
    /\ rpc = "apply"
    /\ method \notin {"checkerboard", "white_gray", "edge_flood"}
    /\ RcbApplied

\* lines 43-52
RcbSave ==
    /\ rpc = "save" /\ out_dir_ok
    /\ fs' = [fs EXCEPT !["out"] = ImageFile(rcb_img)]
    /\ rcb_ret' = "out" /\ rpc' = "done"
    /\ UNCHANGED <<cleanVars, nep50, out_dir_ok, floodVars, singleVars, sheetVars, framesVars, method_arg, method, rcb_img>>

\* line 50 raises: lines 54-56
RcbSaveFail ==
    /\ rpc = "save" /\ ~out_dir_ok
    /\ rcb_ret' = None /\ rpc' = "done"
    /\ UNCHANGED <<cleanVars, envVars, floodVars, singleVars, sheetVars, framesVars, method_arg, method, rcb_img>>

RcbNext ==
    \/ RcbOpenFail \/ RcbOpen \/ RcbDetect
    \/ RcbCheckerboard \/ RcbWhiteGray \/ RcbEdgeFlood \/ RcbDefault
    \/ RcbSave \/ RcbSaveFail

SpecRemove == RcbInit /\ [][RcbNext]_vars

----------------------------------------------------------------------------
(* process_single_cat_image(image_path, output_path) *)

NoRatio == <<>>

\* 0.3 < transparency_ratio < 0.8 on the float64 quotient k / n: the literals
\* are the doubles nearest 3/10 and 8/10, which k / n equals exactly when the
\* fractions are equal, so the comparison agrees with the exact one.
\* Mutant: the upper bound is not strict.
InBandClosedAbove(r) == 10 * r[1] > 3 * r[2] /\ 10 * r[1] <= 8 * r[2]

\* 0.3 < transparency_ratio < 0.8
InBand(r) == 10 * r[1] > 3 * r[2] /\ 10 * r[1] < 8 * r[2]

RECURSIVE Pow2Mod(_, _)
Pow2Mod(e, n) == IF e = 0 THEN 1 % n ELSE (2 * Pow2Mod(e - 1, n)) % n

\* The rounding error of the float64 quotient k / n, in units of
\* 1 / (n * 2^e), for a quotient whose unit in the last place is 2^-e.
RoundErr(k, n, e) ==
    LET rem == (k * Pow2Mod(e, n)) % n
    IN  IF 2 * rem < n THEN 0 - rem ELSE n - rem

\* abs(r1 - 0.5) < abs(r2 - 0.5) on float64 quotients of in-band ratios.
\* Different exact distances compare as the exact ones do.  Equal exact
\* distances on the same side of 0.5 are the same double.  On opposite sides
\* the subtraction from 0.5 is exact and the roundings of the two quotients
\* decide (ulp 2^-54 below 0.5, 2^-53 from 0.5 up).
CloserToHalf(r1, r2) ==
    LET d1 == Abs(2 * r1[1] - r1[2]) * r2[2]
        d2 == Abs(2 * r2[1] - r2[2]) * r1[2]
        below1 == 2 * r1[1] < r1[2]
        below2 == 2 * r2[1] < r2[2]
    IN  IF d1 # d2 THEN d1 < d2
        ELSE IF 2 * r1[1] = r1[2] \/ below1 = below2 THEN FALSE
        ELSE IF below1
        THEN RoundErr(r1[1], r1[2], 54) * r2[2]
                + 2 * RoundErr(r2[1], r2[2], 53) * r1[2] > 0
        ELSE 2 * RoundErr(r1[1], r1[2], 53) * r2[2]
                + RoundErr(r2[1], r2[2], 54) * r1[2] < 0

TempPath(m) == [checkerboard |-> "temp_checkerboard.png",
                white_gray   |-> "temp_white_gray.png",
                edge_flood   |-> "temp_edge_flood.png"][m]

SinglePaths ==
    {"src", "out", "temp_checkerboard.png", "temp_white_gray.png", "temp_edge_flood.png"}

\* One iteration of `for method in methods:`, lines 294-319, on the state
\* st = [fs, best_result, best_method].  dir_ok: os.rename into the directory
\* of output_path works; when it raises, the except clause of line 318 ends
\* the iteration with best_result and best_method already assigned and the
\* temporary file left behind.
SingleIter(st, image_path, output_path, m, nep, dir_ok) ==
    LET temp_path == TempPath(m)
        After(rcb) ==
            IF rcb.ret = None \/ rcb.fs[temp_path].kind # "image" THEN st
            ELSE LET transparency_ratio ==
                         calculate_transparency_ratio(rcb.fs[temp_path].img)
                     better ==
                         /\ InBand(transparency_ratio)
                         /\ \/ st.best_result = NoRatio
                            \/ CloserToHalf(transparency_ratio, st.best_result)
                 IN  IF better /\ dir_ok
                     THEN [fs |-> [rcb.fs EXCEPT ![output_path] = rcb.fs[temp_path],
                                                 ![temp_path] = Absent],
                           best_result |-> transparency_ratio,
                           best_method |-> m]
                     ELSE IF better
                     THEN [fs |-> rcb.fs,
                           best_result |-> transparency_ratio,
                           best_method |-> m]
                     ELSE [st EXCEPT !.fs = [rcb.fs EXCEPT ![temp_path] = Absent]]
    IN  CHOOSE next \in {After(rcb) : rcb \in
                {remove_complex_background(st.fs, image_path, temp_path, m, nep, TRUE)}} : TRUE

\* lines 321-326
SingleFinish(st, image_path, output_path, nep, dir_ok) ==
    IF st.best_method # None THEN [ret |-> output_path, fs |-> st.fs]
    ELSE remove_complex_background(st.fs, image_path, output_path, "white_gray",
                                   nep, dir_ok)

\* The whole call.
process_single_cat_image(files, image_path, output_path, nep, dir_ok) ==
    LET s0 == [fs |-> files, best_result |-> NoRatio, best_method |-> None]
        Iter(st, k) == SingleIter(st, image_path, output_path, Methods[k], nep, dir_ok)
    IN  CHOOSE r \in
            {SingleFinish(s3, image_path, output_path, nep, dir_ok) :
                s3 \in {Iter(s2, 3) : s2 \in {Iter(s1, 2) : s1 \in {Iter(s0, 1)}}}} : TRUE

SinglePalette == {White, Black, Gray200, Cleared}

SelDims == {d \in (1 .. MaxSelPixels) \X (1 .. MaxSelPixels) : d[1] * d[2] <= MaxSelPixels}

SingleInputs ==
    UNION {{[height |-> d[1], width |-> d[2], px |-> f]
              : f \in [Coords(d[1], d[2]) -> SinglePalette]} : d \in SelDims}

SingleInit ==
    /\ nep50 \in BOOLEAN
    /\ out_dir_ok \in BOOLEAN
    /\ \E f \in {Corrupt} \cup {ImageFile(i) : i \in SingleInputs} :
          fs = [p \in SinglePaths |-> IF p = "src" THEN f ELSE Absent]
    /\ mi = 1 /\ best_result = NoRatio /\ best_method = None
    /\ single_ret = None /\ spc = "loop"
    /\ FloodIdle /\ RcbIdle /\ SheetIdle /\ FramesIdle /\ CleanIdle

SingleState == [fs |-> fs, best_result |-> best_result, best_method |-> best_method]

SingleLooping == spc = "loop" /\ mi <= Len(Methods)

\* The strategy of this iteration returns a path: line 298 is true.
SingleRan == SingleLooping /\ fs["src"].kind = "image"

SingleStep(st) ==
    /\ fs' = st.fs
    /\ best_result' = st.best_result
    /\ best_method' = st.best_method
    /\ mi' = mi + 1
    /\ UNCHANGED <<cleanVars, nep50, out_dir_ok, floodVars, rcbVars, sheetVars, framesVars, single_ret, spc>>

\* the strategy returned None: line 298 is false
SingleMethodFailed ==
    /\ SingleLooping /\ ~SingleRan
    /\ SingleStep(SingleIter(SingleState, "src", "out", Methods[mi], nep50, out_dir_ok))

\* lines 306-312: a new best, moved to output_path
SingleMethodTaken ==
    /\ SingleRan /\ out_dir_ok
    /\ \E st \in {SingleIter(SingleState, "src", "out", Methods[mi], nep50, out_dir_ok)} :
          st.best_method = Methods[mi] /\ SingleStep(st)

\* lines 306-312 with os.rename raising: line 318
SingleRenameFailed ==
    /\ SingleRan /\ ~out_dir_ok
    /\ \E st \in {SingleIter(SingleState, "src", "out", Methods[mi], nep50, out_dir_ok)} :
          st.best_method = Methods[mi] /\ SingleStep(st)

\* out of band or not better: the temporary file is removed, lines 315-316
SingleMethodDropped ==
    /\ SingleRan
    /\ \E st \in {SingleIter(SingleState, "src", "out", Methods[mi], nep50, out_dir_ok)} :
          st.best_method # Methods[mi] /\ SingleStep(st)

SingleEnd ==
    LET r == SingleFinish(SingleState, "src", "out", nep50, out_dir_ok)
    IN  /\ fs' = r.fs
        /\ single_ret' = r.ret
        /\ spc' = "done"
        /\ UNCHANGED <<cleanVars, nep50, out_dir_ok, floodVars, rcbVars, sheetVars, framesVars, mi, best_result, best_method>>

\* lines 321-323
SingleReturnBest ==
    /\ spc = "loop" /\ mi > Len(Methods) /\ best_method # None
    /\ SingleEnd

\* lines 324-326
SingleFallback ==
    /\ spc = "loop" /\ mi > Len(Methods) /\ best_method = None
    /\ SingleEnd

SingleNext ==
    \/ SingleMethodFailed \/ SingleMethodTaken \/ SingleRenameFailed
    \/ SingleMethodDropped \/ SingleReturnBest \/ SingleFallback

SpecSingle == SingleInit /\ [][SingleNext]_vars

----------------------------------------------------------------------------
(* create_sprite_sheet(image_paths, output_path, columns, frame_width, frame_height) *)

\* Mutant: the row count is rounded down.
SheetRowsFloor(n, cols) == n \div cols

\* rows = (len(image_paths) + columns - 1) // columns
SheetRows(n, cols) == (n + cols - 1) \div cols

\* Image.new("RGBA", (sheet_width, sheet_height), (0, 0, 0, 0))
NewSheet(n, cols, fw, fh) ==
    [width |-> cols * fw, height |-> SheetRows(n, cols) * fh, pastes |-> <<>>]

\* frame.resize((frame_width, frame_height), LANCZOS), kept symbolic
Resized(img, fw, fh) == [of |-> img, width |-> fw, height |-> fh]

\* lines 256-266 for the frame of index i (from 0): the resized frame pasted
\* at its cell, with itself as mask
PasteFrame(sheet, img, i, cols, fw, fh) ==
    [sheet EXCEPT !.pastes = Append(@,
        [x |-> (i % cols) * fw, y |-> (i \div cols) * fh,
         frame |-> Resized(img, fw, fh)])]

\* lines 250-266 from index i on: the sheet, or None once a frame that exists
\* cannot be opened
RECURSIVE SheetLoop(_, _, _, _, _, _, _)
SheetLoop(sheet, files, paths, i, cols, fw, fh) ==
    IF i >= Len(paths) THEN [ok |-> TRUE, sheet |-> sheet]
    ELSE IF files[paths[i + 1]].kind = "absent"
    THEN SheetLoop(sheet, files, paths, i + 1, cols, fw, fh)
    ELSE IF files[paths[i + 1]].kind # "image"
    THEN [ok |-> FALSE, sheet |-> sheet]
    ELSE SheetLoop(PasteFrame(sheet, files[paths[i + 1]].img, i, cols, fw, fh),
                   files, paths, i + 1, cols, fw, fh)

SheetFile(sheet) == [kind |-> "sheet", sheet |-> sheet]

\* The whole call.
create_sprite_sheet(files, paths, output_path, cols, fw, fh) ==
    LET r == SheetLoop(NewSheet(Len(paths), cols, fw, fh), files, paths, 0, cols, fw, fh)
    IN  IF r.ok
        THEN [ret |-> output_path, fs |-> [files EXCEPT ![output_path] = SheetFile(r.sheet)]]
        ELSE [ret |-> None, fs |-> files]

Fmt02(i) == (IF i < 10 THEN "0" ELSE "") \o ToString(i)

\* os.path.join(temp_dir, f"frame_{i:02d}.png")
FramePath(i) == "temp_processed/frame_" \o Fmt02(i) \o ".png"

\* A frame whose pixels name its index.
FrameImage(i) == Uniform(1, 1, <<i, 0, 0, 255>>)

SheetInit ==
    /\ nep50 = FALSE /\ out_dir_ok = TRUE
    /\ \E n \in 1 .. MaxSheetFrames :
          /\ image_paths = [k \in 1 .. n |-> FramePath(k - 1)]
          /\ \E missing \in 0 .. n, corrupt \in 0 .. n :
                fs = [p \in {FramePath(k - 1) : k \in 1 .. n} \cup {"sheet.png"} |->
                        IF p = "sheet.png" THEN Absent
                        ELSE IF missing > 0 /\ p = FramePath(missing - 1) THEN Absent
                        ELSE IF corrupt > 0 /\ p = FramePath(corrupt - 1) THEN Corrupt
                        ELSE ImageFile(FrameImage(
                                 CHOOSE k \in 0 .. n - 1 : p = FramePath(k)))]
    /\ columns \in 1 .. MaxColumns
    /\ \E size \in {32, 64} : frame_width = size /\ frame_height = size
    /\ sprite_sheet = NoSheet /\ sh_i = 0 /\ sheet_ret = None /\ shpc = "new"
    /\ FloodIdle /\ RcbIdle /\ SingleIdle /\ FramesIdle /\ CleanIdle

\* lines 243-248
SheetCreate ==
    /\ shpc = "new"
    /\ sprite_sheet' = NewSheet(Len(image_paths), columns, frame_width, frame_height)
    /\ shpc' = "loop"
    /\ UNCHANGED <<cleanVars, envVars, floodVars, rcbVars, singleVars, framesVars, image_paths, columns,
                   frame_width, frame_height, sh_i, sheet_ret>>

SheetAt == fs[image_paths[sh_i + 1]]

\* lines 251-253
SheetSkipMissing ==
    /\ shpc = "loop" /\ sh_i < Len(image_paths)
    /\ SheetAt.kind = "absent"
    /\ sh_i' = sh_i + 1
    /\ UNCHANGED <<cleanVars, envVars, floodVars, rcbVars, singleVars, framesVars, image_paths, columns,
                   frame_width, frame_height, sprite_sheet, sheet_ret, shpc>>

\* lines 256-266
SheetPaste ==
    /\ shpc = "loop" /\ sh_i < Len(image_paths)
    /\ SheetAt.kind = "image"
    /\ sprite_sheet' = PasteFrame(sprite_sheet, SheetAt.img, sh_i, columns,
                                  frame_width, frame_height)
    /\ sh_i' = sh_i + 1
    /\ UNCHANGED <<cleanVars, envVars, floodVars, rcbVars, singleVars, framesVars, image_paths, columns,
                   frame_width, frame_height, sheet_ret, shpc>>

\* line 256 raises: lines 276-278
SheetOpenFail ==
    /\ shpc = "loop" /\ sh_i < Len(image_paths)
    /\ SheetAt.kind \notin {"absent", "image"}
    /\ sheet_ret' = None /\ shpc' = "done"
    /\ UNCHANGED <<cleanVars, envVars, floodVars, rcbVars, singleVars, framesVars, image_paths, columns,
                   frame_width, frame_height, sprite_sheet, sh_i>>

\* lines 268-274
SheetSave ==
    /\ shpc = "loop" /\ sh_i >= Len(image_paths)
    /\ fs' = [fs EXCEPT !["sheet.png"] = SheetFile(sprite_sheet)]
    /\ sheet_ret' = "sheet.png" /\ shpc' = "done"
    /\ UNCHANGED <<cleanVars, nep50, out_dir_ok, floodVars, rcbVars, singleVars, framesVars, image_paths,
                   columns, frame_width, frame_height, sprite_sheet, sh_i>>

SheetNext ==
    SheetCreate \/ SheetSkipMissing \/ SheetPaste \/ SheetOpenFail \/ SheetSave

SpecSheet == SheetInit /\ [][SheetNext]_vars

----------------------------------------------------------------------------
(* process_character_frames(input_dir, output_path) *)

\* A directory entry is [stem, ext]; its name is the zero-padded stem, a dot
\* and the extension, so names sort as their stems do.
Lower(ext) == IF ext = "PNG" THEN "png" ELSE ext

InputPath(f) == "in/" \o Fmt02(f.stem) \o "." \o f.ext

\* png_files.sort()
RECURSIVE SortNames(_)
SortNames(S) ==
    IF S = {} THEN <<>>
    ELSE LET first == CHOOSE f \in S : \A g \in S : f.stem <= g.stem
         IN  <<first>> \o SortNames(S \ {first})

\* lines 345-346
PngFiles(names) == SortNames({f \in names : Lower(f.ext) = "png"})

\* Image.new("RGBA", (64, 64), (0, 0, 0, 0))
Placeholder == Uniform(64, 64, Cleared)

\* Mutant: a frame that fails is skipped instead of replaced.
FrameStepSkipFailed(st, i, r) ==
    LET temp_path == FramePath(i)
    IN  IF r.ret # None
        THEN [fs |-> r.fs, processed_frames |-> Append(st.processed_frames, temp_path)]
        ELSE [fs |-> r.fs, processed_frames |-> st.processed_frames]

\* lines 366-373 for the frame of index i, on st = [fs, processed_frames],
\* with r what process_single_cat_image returned and left on disk.  temp_dir
\* exists (line 357), so writes into it work.
FrameStep(st, i, r) ==
    LET temp_path == FramePath(i)
    IN  IF r.ret # None
        THEN [fs |-> r.fs, processed_frames |-> Append(st.processed_frames, temp_path)]
        ELSE [fs |-> [r.fs EXCEPT ![temp_path] = ImageFile(Placeholder)],
              processed_frames |-> Append(st.processed_frames, temp_path)]

\* lines 380-392: columns, and rows (which is only printed)
LayoutColumns(frame_count) ==
    IF frame_count <= 4 THEN frame_count
    ELSE IF frame_count <= 8 THEN 4
    ELSE IF frame_count <= 16 THEN 4
    ELSE 8

LayoutRows(frame_count) ==
    IF frame_count <= 4 THEN 1
    ELSE IF frame_count <= 8 THEN 2
    ELSE IF frame_count <= 16 THEN 4
    ELSE (frame_count + 7) \div 8

\* os.path.dirname(sheet_path) for the two output paths of the model
Dirname(path) == IF path = "assets/sheet.png" THEN "assets" ELSE ""

TempFiles == {FramePath(k) : k \in 0 .. MaxFrames}

\* lines 401-405
RemoveAll(files, paths) ==
    [p \in DOMAIN files |->
        IF \E k \in 1 .. Len(paths) : paths[k] = p THEN Absent ELSE files[p]]

\* A frame whose second pixel names its stem; checkerboard clears its white
\* pixel, which puts the ratio at 0.5.
GoodFrame(stem) ==
    [height |-> 1, width |-> 2,
     px |-> [c \in Coords(1, 2) |-> IF c[2] = 0 THEN White ELSE <<stem, 0, 0, 255>>]]

\* A frame no strategy changes: every ratio is 0 and the fallback result is used.
DarkFrame(stem) == Uniform(1, 1, <<stem, 0, 0, 255>>)

FramesInit ==
    /\ nep50 \in BOOLEAN /\ out_dir_ok = TRUE
    /\ sheet_path \in {"sheet.png", "assets/sheet.png"}
    /\ temp_dir \in BOOLEAN
    /\ \E n \in 0 .. MaxFrames, corrupt \in {0, 1, 2}, mixed \in BOOLEAN, dark \in BOOLEAN :
          /\ corrupt <= n
          /\ listing =
                {[stem |-> k, ext |-> IF mixed /\ k = 1 THEN "PNG" ELSE "png"] : k \in 1 .. n}
                    \cup (IF mixed THEN {[stem |-> 0, ext |-> "txt"]} ELSE {})
          /\ fs = [p \in {InputPath(f) : f \in listing} \cup TempFiles
                            \cup {TempPath(Methods[k]) : k \in 1 .. 3}
                            \cup {"sheet.png", "assets/sheet.png"} |->
                     IF \E f \in listing : p = InputPath(f)
                     THEN LET f == CHOOSE g \in listing : p = InputPath(g)
                          IN  IF f.stem = corrupt \/ f.ext = "txt" THEN Corrupt
                              ELSE IF dark /\ f.stem = n THEN ImageFile(DarkFrame(f.stem))
                              ELSE ImageFile(GoodFrame(f.stem))
                     ELSE IF temp_dir /\ p = FramePath(n)
                     THEN ImageFile(DarkFrame(n))
                     ELSE Absent]
    /\ png_files = <<>> /\ processed_frames = <<>> /\ fr_i = 0
    /\ frames_ret = None /\ frpc = "list"
    /\ FloodIdle /\ RcbIdle /\ SingleIdle /\ SheetIdle /\ CleanIdle

FramesOther == <<envVars, floodVars, rcbVars, singleVars, sheetVars, cleanVars>>

\* lines 345-350
FramesNoPng ==
    /\ frpc = "list" /\ PngFiles(listing) = <<>>
    /\ frames_ret' = None /\ frpc' = "done"
    /\ UNCHANGED <<FramesOther, listing, sheet_path, png_files, processed_frames,
                   fr_i, temp_dir>>

\* lines 345-357
FramesStart ==
    /\ frpc = "list" /\ PngFiles(listing) # <<>>
    /\ png_files' = PngFiles(listing)
    /\ temp_dir' = TRUE
    /\ frpc' = "loop"
    /\ UNCHANGED <<FramesOther, listing, sheet_path, processed_frames, fr_i, frames_ret>>

FramesStep(st) ==
    /\ fs' = st.fs
    /\ processed_frames' = st.processed_frames
    /\ fr_i' = fr_i + 1
    /\ UNCHANGED <<cleanVars, nep50, out_dir_ok, floodVars, rcbVars, singleVars, sheetVars,
                   listing, sheet_path, png_files, temp_dir, frames_ret, frpc>>

FramesState == [fs |-> fs, processed_frames |-> processed_frames]

\* lines 359-367
FramesProcessed ==
    /\ frpc = "loop" /\ fr_i < Len(png_files)
    /\ \E r \in {process_single_cat_image(fs, InputPath(png_files[fr_i + 1]),
                                          FramePath(fr_i), nep50, TRUE)} :
          /\ r.ret # None
          /\ FramesStep(FrameStep(FramesState, fr_i, r))

\* lines 359-365, 368-373
FramesPlaceholder ==
    /\ frpc = "loop" /\ fr_i < Len(png_files)
    /\ \E r \in {process_single_cat_image(fs, InputPath(png_files[fr_i + 1]),
                                          FramePath(fr_i), nep50, TRUE)} :
          /\ r.ret = None
          /\ FramesStep(FrameStep(FramesState, fr_i, r))

\* lines 375-397: processed_frames is never empty here; os.makedirs("")
\* raises FileNotFoundError and nothing catches it
FramesMakedirsRaises ==
    /\ frpc = "loop" /\ fr_i >= Len(png_files)
    /\ processed_frames # <<>>
    /\ Dirname(sheet_path) = ""
    /\ frpc' = "raised"
    /\ UNCHANGED <<FramesOther, listing, sheet_path, png_files, processed_frames,
                   fr_i, temp_dir, frames_ret>>

\* lines 375-398
FramesAssemble ==
    /\ frpc = "loop" /\ fr_i >= Len(png_files)
    /\ processed_frames # <<>>
    /\ Dirname(sheet_path) # ""
    /\ \E r \in {create_sprite_sheet(fs, processed_frames, sheet_path,
                                     LayoutColumns(Len(processed_frames)), 64, 64)} :
          /\ fs' = r.fs
          /\ frames_ret' = r.ret
    /\ frpc' = "cleanup"
    /\ UNCHANGED <<cleanVars, nep50, out_dir_ok, floodVars, rcbVars, singleVars, sheetVars,
                   listing, sheet_path, png_files, processed_frames, fr_i, temp_dir>>

\* lines 400-411: os.rmdir works on an empty directory only
FramesCleanup ==
    /\ frpc = "cleanup"
    /\ \E left \in {RemoveAll(fs, processed_frames)} :
          /\ fs' = left
          /\ temp_dir' = (\E p \in TempFiles : left[p].kind # "absent")
    /\ frpc' = "done"
    /\ UNCHANGED <<cleanVars, nep50, out_dir_ok, floodVars, rcbVars, singleVars, sheetVars,
                   listing, sheet_path, png_files, processed_frames, fr_i, frames_ret>>

FramesNext ==
    \/ FramesNoPng \/ FramesStart \/ FramesProcessed \/ FramesPlaceholder
    \/ FramesMakedirsRaises \/ FramesAssemble \/ FramesCleanup

SpecFrames == FramesInit /\ [][FramesNext]_vars

----------------------------------------------------------------------------
(* cleanup_edges(img), src/process_cat.py.  pixels[x, y] is px[<<y, x>>]. *)

\* range(1, height-1) x range(1, width-1), y outermost
Interior(h, w) ==
    [k \in 1 .. (IF h > 2 /\ w > 2 THEN (h - 2) * (w - 2) ELSE 0) |->
        <<1 + ((k - 1) \div (w - 2)), 1 + ((k - 1) % (w - 2))>>]

\* the dy, dx loops without (0, 0)
CleanOffsets == {d \in {-1, 0, 1} \X {-1, 0, 1} : d # <<0, 0>>}

\* transparent_neighbors of the pixel at c, counted in px
TransparentNeighbors(px, c) ==
    Cardinality({d \in CleanOffsets : px[<<c[1] + d[1], c[2] + d[2]>>][4] = 0})

\* Mutant: the neighbours are read from the buffer being written.
CleanAtInPlace(pixels, res, c) ==
    LET p == pixels.px[c]
    IN  IF /\ p[4] > 0
           /\ TransparentNeighbors(res.px, c) >= 6
           /\ p[1] > 180 /\ p[2] > 180 /\ p[3] > 180
        THEN [res EXCEPT !.px[c] = <<0, 0, 0, 0>>]
        ELSE res

\* The body of the two loops for the pixel at c: the result buffer after it.
CleanAt(pixels, res, c) ==
    LET p == pixels.px[c]
    IN  IF /\ p[4] > 0
           /\ TransparentNeighbors(pixels.px, c) >= 6
           /\ p[1] > 180 /\ p[2] > 180 /\ p[3] > 180
        THEN [res EXCEPT !.px[c] = <<0, 0, 0, 0>>]
        ELSE res

RECURSIVE CleanFrom(_, _, _)
CleanFrom(pixels, res, k) ==
    IF k > Len(Interior(pixels.height, pixels.width)) THEN res
    ELSE CleanFrom(pixels, CleanAt(pixels, res, Interior(pixels.height, pixels.width)[k]),
                   k + 1)

\* The whole call.
cleanup_edges(img) == CleanFrom(img, img, 1)

\* Pixels of the inputs: transparent, transparent with light colour, opaque
\* black, opaque light, opaque with one dark channel, barely not light.
CleanBorderPalette == {Cleared, Black}
CleanInnerPalette ==
    {Cleared, <<255, 255, 255, 0>>, Black, <<200, 200, 200, 255>>,
     <<255, 255, 100, 1>>, <<181, 181, 180, 255>>}

CleanImage(w, border, inner) ==
    [height |-> 3, width |-> w,
     px |-> [c \in Coords(3, w) |-> IF IsEdge(c, 3, w) THEN border[c] ELSE inner[c]]]

CleanInit ==
    /\ nep50 = FALSE /\ out_dir_ok = TRUE /\ fs = <<>>
    /\ \E w \in 3 .. MaxCleanWidth :
          \E border \in [{c \in Coords(3, w) : IsEdge(c, 3, w)} -> CleanBorderPalette],
             inner \in [{c \in Coords(3, w) : ~IsEdge(c, 3, w)} -> CleanInnerPalette] :
                ce_pixels = CleanImage(w, border, inner)
    /\ ce_result = ce_pixels
    /\ ce_pos = 0 /\ cepc = "loop"
    /\ FloodIdle /\ RcbIdle /\ SingleIdle /\ SheetIdle /\ FramesIdle

CleanOther == <<envVars, floodVars, rcbVars, singleVars, sheetVars, framesVars>>

CleanCurrent == Interior(ce_pixels.height, ce_pixels.width)[ce_pos + 1]

CleanMore == cepc = "loop" /\ ce_pos < Len(Interior(ce_pixels.height, ce_pixels.width))

CleanStep ==
    /\ ce_result' = CleanAt(ce_pixels, ce_result, CleanCurrent)
    /\ ce_pos' = ce_pos + 1
    /\ UNCHANGED <<CleanOther, ce_pixels, cepc>>

\* line 158 false: a transparent pixel
CleanSkipTransparent ==
    /\ CleanMore
    /\ ce_pixels.px[CleanCurrent][4] = 0
    /\ CleanStep

\* lines 158-172: an opaque pixel that is kept
CleanKeep ==
    /\ CleanMore
    /\ ce_pixels.px[CleanCurrent][4] > 0
    /\ CleanAt(ce_pixels, ce_result, CleanCurrent) = ce_result
    /\ CleanStep

\* lines 158-173: an opaque pixel that is cleared
CleanClear ==
    /\ CleanMore
    /\ ce_pixels.px[CleanCurrent][4] > 0
    /\ CleanAt(ce_pixels, ce_result, CleanCurrent) # ce_result
    /\ CleanStep

\* line 175
CleanReturn ==
    /\ cepc = "loop" /\ ~CleanMore
    /\ cepc' = "done"
    /\ UNCHANGED <<CleanOther, ce_pixels, ce_result, ce_pos>>

CleanNext == CleanSkipTransparent \/ CleanKeep \/ CleanClear \/ CleanReturn

SpecCleanup == CleanInit /\ [][CleanNext]_vars

FloodState == [result |-> result, visited |-> visited, queue |-> queue]

FloodSet(st) ==
    /\ result' = st.result
    /\ visited' = st.visited
    /\ queue' = st.queue

FloodInputs ==
    UNION {ImagesOver(d[1], d[2], {White, Black}, Gray200) : d \in Dims}
        \cup {RingImage}

FloodInit ==
    /\ nep50 \in BOOLEAN
    /\ EnvIdle /\ RcbIdle /\ SingleIdle /\ SheetIdle /\ FramesIdle /\ CleanIdle
    /\ img_array \in FloodInputs
    /\ result = FloodStart(img_array).result
    /\ visited = FloodStart(img_array).visited
    /\ queue = FloodStart(img_array).queue
    /\ fpc = "loop"

\* lines 207-208: already visited, continue
FloodSkipVisited ==
    /\ fpc = "loop" /\ queue # <<>>
    /\ visited[Head(queue)]
    /\ FloodSet(FloodPop(FloodState, nep50))
    /\ UNCHANGED <<cleanVars, envVars, rcbVars, singleVars, sheetVars, framesVars, img_array, fpc>>

\* lines 210-216: mark visited, not light: a wall
FloodWall ==
    /\ fpc = "loop" /\ queue # <<>>
    /\ ~visited[Head(queue)]
    /\ ~IsLight(result.px[Head(queue)])
    /\ FloodSet(FloodPop(FloodState, nep50))
    /\ UNCHANGED <<cleanVars, envVars, rcbVars, singleVars, sheetVars, framesVars, img_array, fpc>>

\* lines 210-232: mark visited, clear, enqueue the similar neighbours
FloodClear ==
    /\ fpc = "loop" /\ queue # <<>>
    /\ ~visited[Head(queue)]
    /\ IsLight(result.px[Head(queue)])
    /\ FloodSet(FloodPop(FloodState, nep50))
    /\ UNCHANGED <<cleanVars, envVars, rcbVars, singleVars, sheetVars, framesVars, img_array, fpc>>

\* line 234
FloodReturn ==
    /\ fpc = "loop" /\ queue = <<>>
    /\ fpc' = "done"
    /\ UNCHANGED <<cleanVars, envVars, rcbVars, singleVars, sheetVars, framesVars, img_array, result, visited, queue>>

FloodNext == FloodSkipVisited \/ FloodWall \/ FloodClear \/ FloodReturn

SpecFlood == FloodInit /\ [][FloodNext]_vars

\* The call runs on its own thread of control: a step that can be taken is
\* taken.
SpecFloodLive == SpecFlood /\ WF_vars(FloodNext)

----------------------------------------------------------------------------
(* Properties of remove_background_flood_fill *)

Adjacent8(a, b) == a # b /\ Abs(a[1] - b[1]) <= 1 /\ Abs(a[2] - b[2]) <= 1

\* The pixels of A joined to a pixel of S by an 8-neighbour path inside A.
RECURSIVE Reach(_, _)
Reach(S, A) ==
    LET next == S \cup {n \in A : \E s \in S : Adjacent8(n, s)}
    IN  IF next = S THEN S ELSE Reach(next, A)

FloodCoords == Coords(img_array.height, img_array.width)
EdgeCoords == {c \in FloodCoords : IsEdge(c, img_array.height, img_array.width)}
ModifiedSet == {c \in FloodCoords : result.px[c] # img_array.px[c]}
LightSet == {c \in FloodCoords : IsLight(img_array.px[c])}

\* C1: flood fill modifies a pixel only if it is light and joined to a border
\* pixel by an 8-neighbour path of cleared pixels; a non-light pixel is never
\* modified, and a light pixel that every path to the border separates by a
\* non-light pixel keeps its RGBA value.
C1_FloodRespectsWalls ==
    fpc # "idle" =>
        /\ ModifiedSet \subseteq LightSet
        /\ ModifiedSet \subseteq Reach(EdgeCoords \cap ModifiedSet, ModifiedSet)
        /\ \A c \in FloodCoords \ Reach(EdgeCoords \cap LightSet, LightSet) :
              result.px[c] = img_array.px[c]

\* A finished run that cleared border pixels and left a light pixel enclosed
\* by a ring of non-light pixels untouched.
C1_Witness ==
    /\ fpc = "done"
    /\ ModifiedSet # {}
    /\ \E c \in LightSet \ Reach(EdgeCoords \cap LightSet, LightSet) :
          result.px[c] = img_array.px[c] /\ result.px[c][4] = 255

----------------------------------------------------------------------------
(* Properties of detection and of the per-pixel strategies *)

RcbInput == fs["src"].img
RcbDetected == method_arg = "auto" /\ rpc \in {"apply", "save", "done"}

\* C8 as stated: detect_background_type classifies the 8x8 image of four 4x4
\* quadrants (white on one diagonal, black on the other) as checkerboard, at
\* least 2 of its 4 corner samples having the checkerboard pattern.
C8_ScenarioBIsCheckerboard ==
    (RcbDetected /\ fs["src"] = ImageFile(ScenarioB)) =>
        method = "checkerboard" /\ CheckerboardScore(RcbInput) >= 2

\* C8 amended: on that image no even-aligned 2x2 block passes the
\* checkerboard-block test (every one is uniform), so none of the 4 corner
\* samples has the pattern, and with half of the sampled pixels light the
\* detector returns edge_flood.
C8_ScenarioBIsEdgeFlood ==
    (RcbDetected /\ fs["src"] = ImageFile(ScenarioB)) =>
        /\ method = "edge_flood"
        /\ CheckerboardScore(RcbInput) = 0
        /\ \A c \in Coords(8, 8) :
              (c[1] + 1 < 8 /\ c[2] + 1 < 8 /\ c[1] % 2 = 0 /\ c[2] % 2 = 0)
                  => ~is_checkerboard_block(RcbInput, c[1], c[2])

C8_Witness ==
    /\ RcbDetected /\ rpc = "done"
    /\ fs["src"] = ImageFile(ScenarioB)
    /\ method = "edge_flood"

\* The even-aligned 2x2 block holding pixel c lies in the image and passes
\* the checkerboard-block test.
InPassingBlock(img, c) ==
    LET i == c[1] - (c[1] % 2)
        j == c[2] - (c[2] % 2)
    IN  /\ i + 1 < img.height /\ j + 1 < img.width
        /\ is_checkerboard_block(img, i, j)

CheckerboardApplied ==
    /\ method_arg = "checkerboard" /\ rpc \in {"save", "done"}
    /\ fs["src"].kind = "image"

\* C10: after remove_checkerboard_background every pixel whose R, G, B are all
\* > 220 is transparent; a pixel is modified only if it is such a pixel or
\* lies in an even-aligned 2x2 block passing the checkerboard-block test, and
\* every other pixel keeps its RGBA value.  On Scenario B the black quadrants
\* stay opaque and the white ones become transparent.
C10_CheckerboardRemoval ==
    CheckerboardApplied =>
        /\ rcb_img.height = RcbInput.height /\ rcb_img.width = RcbInput.width
        /\ \A c \in Coords(RcbInput.height, RcbInput.width) :
              /\ VeryLight(RcbInput.px[c]) => rcb_img.px[c][4] = 0
              /\ rcb_img.px[c] # RcbInput.px[c] =>
                    VeryLight(RcbInput.px[c]) \/ InPassingBlock(RcbInput, c)
              /\ RcbInput = ScenarioB =>
                    /\ RcbInput.px[c] = Black => rcb_img.px[c] = Black
                    /\ RcbInput.px[c] = White => rcb_img.px[c][4] = 0

\* A run that cleared a black pixel of a passing block and kept another
\* black pixel, outside any passing block, as it was.
C10_Witness ==
    /\ CheckerboardApplied /\ rpc = "done"
    /\ \E c \in Coords(RcbInput.height, RcbInput.width) :
          RcbInput.px[c] = Black /\ rcb_img.px[c] = Cleared
    /\ \E c \in Coords(RcbInput.height, RcbInput.width) :
          RcbInput.px[c] = Black /\ rcb_img.px[c] = Black

----------------------------------------------------------------------------
(* Properties of process_single_cat_image *)

SingleSrc == fs["src"].img
SingleReturned == spc = "done" /\ fs["src"].kind = "image"

\* The transparency ratio of what a strategy produces for the source image.
StrategyRatio(m) == calculate_transparency_ratio(ApplyMethod(SingleSrc, m, nep50))

\* k / n lies strictly between 3/10 and 8/10.
RatioInOpenBand(r) == 3 * r[2] < 10 * r[1] /\ 10 * r[1] < 8 * r[2]

\* |k / n - 1/2| in units of 1 / (2 n); the three results have the same n.
HalfDistance(r) == Abs(2 * r[1] - r[2])

Accepted == {m \in {"checkerboard", "white_gray", "edge_flood"} :
                RatioInOpenBand(StrategyRatio(m))}

\* The selection as a function of the three ratios alone: the accepted
\* method no accepted method beats, the earliest of those.
SelectedByRatios(r1, r2, r3) ==
    LET R == <<r1, r2, r3>>
        acc == {k \in 1 .. 3 : RatioInOpenBand(R[k])}
    IN  IF acc = {} THEN None
        ELSE Methods[CHOOSE k \in acc : \A j \in acc \ {k} :
                        IF j < k THEN CloserToHalf(R[k], R[j])
                        ELSE ~CloserToHalf(R[j], R[k])]

\* C2: the selector returns the strategy whose ratio lies strictly between
\* 0.3 and 0.8 and is closest to 0.5 among those that do; when none does it
\* returns the raw white_gray result; the selected method is a function of
\* the three ratios only.
C2_SelectorChoosesClosest ==
    SingleReturned =>
        /\ Accepted # {} =>
              /\ best_method \in Accepted
              /\ \A m \in Accepted :
                    HalfDistance(StrategyRatio(best_method)) <= HalfDistance(StrategyRatio(m))
              /\ single_ret = "out"
              /\ out_dir_ok => fs["out"] = ImageFile(ApplyMethod(SingleSrc, best_method, nep50))
        /\ Accepted = {} =>
              /\ best_method = None
              /\ out_dir_ok =>
                    /\ single_ret = "out"
                    /\ fs["out"] = ImageFile(remove_white_gray_background(SingleSrc, 40))
        /\ best_method = SelectedByRatios(StrategyRatio("checkerboard"),
                                          StrategyRatio("white_gray"),
                                          StrategyRatio("edge_flood"))

\* A finished call that had at least two accepted strategies and chose the
\* last one tried.
C2_Witness ==
    /\ SingleReturned /\ out_dir_ok
    /\ Cardinality(Accepted) >= 2
    /\ best_method = "edge_flood"
    /\ fs["out"] = ImageFile(remove_background_flood_fill(SingleSrc, nep50))

\* C9 as stated: white_gray clears every pixel the test of line 180 accepts,
\* and on a uniform (255,255,255,255) image every pixel becomes transparent:
\* the ratio is 1.0, the selector rejects it and falls back to that fully
\* transparent white_gray result.
C9_UniformWhiteBecomesTransparent ==
    (SingleReturned /\ out_dir_ok) =>
        /\ \A c \in Coords(SingleSrc.height, SingleSrc.width) :
              IsWhiteGray(SingleSrc.px[c], 40) =>
                  remove_white_gray_background(SingleSrc, 40).px[c][4] = 0
        /\ SingleSrc = Uniform(SingleSrc.height, SingleSrc.width, White) =>
              /\ StrategyRatio("white_gray")[1] = StrategyRatio("white_gray")[2]
              /\ best_method = None
              /\ single_ret = "out"
              /\ \A c \in Coords(SingleSrc.height, SingleSrc.width) :
                    fs["out"].img.px[c][4] = 0

----------------------------------------------------------------------------
(* Properties of create_sprite_sheet *)

SheetStarted == shpc \in {"loop", "done"}

\* ceil(n / c): the least r with r * c >= n
CeilDiv(n, c) == CHOOSE r \in 0 .. n : r * c >= n /\ (r - 1) * c < n

\* The index of the frame a paste holds (the frames of SheetInit name it).
PastedIndex(p) == p.frame.of.px[<<0, 0>>][1]

\* The paste covers some pixel of the cell (col, row).
CoversCell(p, col, row) ==
    /\ p.x < (col + 1) * frame_width /\ col * frame_width < p.x + p.frame.width
    /\ p.y < (row + 1) * frame_height /\ row * frame_height < p.y + p.frame.height

SheetPastes == {sprite_sheet.pastes[k] : k \in 1 .. Len(sprite_sheet.pastes)}

\* C5 as stated: a frame file that is missing or unreadable at assembly time
\* is skipped and does not abort assembly: the sheet is written and returned
\* with every readable frame at its own cell.
C5_BadFramesSkipped ==
    shpc = "done" =>
        /\ sheet_ret = "sheet.png"
        /\ fs["sheet.png"].kind = "sheet"
        /\ \A i \in 0 .. Len(image_paths) - 1 :
              fs[image_paths[i + 1]].kind = "image" =>
                  \E p \in SheetPastes :
                      /\ PastedIndex(p) = i
                      /\ p.x = (i % columns) * frame_width
                      /\ p.y = (i \div columns) * frame_height

\* C6: for n >= 1 frames and c >= 1 columns the canvas has c columns and
\* ceil(n / c) rows of cells, frame i is pasted at cell (i mod c, i div c),
\* every such cell lies inside the canvas, two frames never share a cell, and
\* every cell of index >= n stays transparent (nothing is pasted over it).
C6_SheetGrid ==
    SheetStarted =>
        LET n == Len(image_paths)
            rows == CeilDiv(n, columns)
        IN  /\ sprite_sheet.width = columns * frame_width
            /\ sprite_sheet.height = rows * frame_height
            /\ \A p \in SheetPastes :
                  /\ p.frame.width = frame_width /\ p.frame.height = frame_height
                  /\ p.x = (PastedIndex(p) % columns) * frame_width
                  /\ p.y = (PastedIndex(p) \div columns) * frame_height
                  /\ 0 <= p.x /\ p.x + frame_width <= sprite_sheet.width
                  /\ 0 <= p.y /\ p.y + frame_height <= sprite_sheet.height
            /\ \A p, q \in SheetPastes :
                  PastedIndex(p) # PastedIndex(q) =>
                      \A col \in 0 .. columns - 1, row \in 0 .. rows - 1 :
                          ~(CoversCell(p, col, row) /\ CoversCell(q, col, row))
            /\ \A k \in n .. columns * rows - 1 : \A p \in SheetPastes :
                  ~CoversCell(p, k % columns, k \div columns)
            /\ (shpc = "done" /\ sheet_ret # None) =>
                  \A i \in 0 .. n - 1 :
                      fs[image_paths[i + 1]].kind = "image" =>
                          \E p \in SheetPastes : PastedIndex(p) = i

\* Scenario C: 10 frames in 4 columns, assembled: a 4 x 3 grid whose last two
\* cells hold nothing.
C6_Witness ==
    /\ shpc = "done" /\ sheet_ret = "sheet.png"
    /\ Len(image_paths) = 10 /\ columns = 4
    /\ Len(sprite_sheet.pastes) = 10
    /\ sprite_sheet.width = 4 * frame_width
    /\ sprite_sheet.height = 3 * frame_height
    /\ \A p \in SheetPastes : ~CoversCell(p, 2, 2) /\ ~CoversCell(p, 3, 2)

----------------------------------------------------------------------------
(* process_character_frames: properties *)

PngNames == {f \in listing : f.ext \in {"png", "PNG"}}

FramesLooped == frpc \in {"assemble", "cleanup", "raised"} \/ (frpc = "loop" /\ fr_i = Len(png_files))

\* The input of position k (from 1) is unreadable.
FrameInputBad(k) == fs[InputPath(png_files[k])].kind # "image"

\* The frame file of position k holds the processed input of that position:
\* the input's size, and the stem the input carries in its last pixel.
FrameHoldsInput(k) ==
    LET f == fs[processed_frames[k]]
        src == fs[InputPath(png_files[k])].img
    IN  /\ f.kind = "image"
        /\ f.img.height = src.height /\ f.img.width = src.width
        /\ f.img.px[<<0, src.width - 1>>] = <<png_files[k].stem, 0, 0, 255>>

FrameHoldsPlaceholder(k) ==
    LET f == fs[processed_frames[k]]
    IN  /\ f.kind = "image"
        /\ f.img.height = 64 /\ f.img.width = 64
        /\ \A c \in DOMAIN f.img.px : f.img.px[c] = <<0, 0, 0, 0>>

\* C3: once a run that processed frames is over, no per-frame temporary file
\* and no temp_processed directory remains, whether the run returned or raised.
C3_TempAlwaysRemoved ==
    (frpc \in {"done", "raised"} /\ processed_frames # <<>>) =>
        /\ \A p \in TempFiles : fs[p].kind = "absent"
        /\ ~temp_dir

\* C4: the PNG names (any case of the extension) are processed in ascending
\* order, and the frame list gets exactly one entry per input, at the input's
\* position: the processed image, or a 64x64 fully transparent placeholder
\* where processing failed.
C4_OneFramePerInput ==
    /\ frpc \notin {"idle", "list"} =>
          /\ {png_files[k] : k \in 1 .. Len(png_files)} = PngNames
          /\ Len(png_files) = Cardinality(PngNames)
          /\ \A k \in 1 .. Len(png_files) - 1 : png_files[k].stem < png_files[k + 1].stem
          /\ Len(processed_frames) = fr_i
          /\ \A k \in 1 .. Len(processed_frames) : processed_frames[k] = FramePath(k - 1)
    /\ FramesLooped =>
          /\ Len(processed_frames) = Cardinality(PngNames)
          /\ \A k \in 1 .. Len(processed_frames) :
                IF FrameInputBad(k) THEN FrameHoldsPlaceholder(k) ELSE FrameHoldsInput(k)
    /\ (frpc = "cleanup" /\ frames_ret # None) =>
          LET sheet == fs[sheet_path].sheet
          IN  /\ Len(sheet.pastes) = Len(processed_frames)
              /\ \A k \in 1 .. Len(processed_frames) :
                    sheet.pastes[k].frame.of = fs[processed_frames[k]].img

C4_Witness ==
    /\ frpc = "cleanup" /\ frames_ret # None
    /\ Len(processed_frames) >= 3
    /\ Cardinality(listing) > Len(png_files)
    /\ \E k \in 1 .. Len(png_files) : png_files[k].ext = "PNG"
    /\ \E k \in 1 .. Len(png_files) : FrameInputBad(k) /\ FrameHoldsPlaceholder(k)
    /\ \E k \in 1 .. Len(png_files) : ~FrameInputBad(k) /\ FrameHoldsInput(k)

\* C7: the sheet has the columns and rows of the layout table, 64 pixels per
\* cell.
C7_SheetHasTableLayout ==
    (frpc \in {"cleanup", "done"} /\ frames_ret # None) =>
        LET sheet == fs[sheet_path].sheet
            n == Len(processed_frames)
        IN  /\ sheet.width = LayoutColumns(n) * 64
            /\ sheet.height = LayoutRows(n) * 64

----------------------------------------------------------------------------
(* cleanup_edges: properties *)

CleanInteriorSet ==
    {c \in DOMAIN ce_pixels.px :
        /\ c[1] >= 1 /\ c[1] <= ce_pixels.height - 2
        /\ c[2] >= 1 /\ c[2] <= ce_pixels.width - 2}

\* The 8 neighbours of c that are transparent in the image before the pass.
OriginallyTransparentAround(c) ==
    {n \in DOMAIN ce_pixels.px : Adjacent8(c, n) /\ ce_pixels.px[n][4] = 0}

ShouldClear(c) ==
    /\ c \in CleanInteriorSet
    /\ ce_pixels.px[c][4] > 0
    /\ Cardinality(OriginallyTransparentAround(c)) >= 6
    /\ \A ch \in 1 .. 3 : ce_pixels.px[c][ch] > 180

\* C11: after the pass a pixel is (0,0,0,0) in the result exactly when it is
\* an opaque interior pixel with at least 6 neighbours transparent in the
\* original and R, G, B all above 180; every other pixel, the border ring
\* included, is as in the original, whatever was cleared before it.
C11_CleanupDecidesOnOriginal ==
    cepc = "done" =>
        \A c \in DOMAIN ce_pixels.px :
            ce_result.px[c] = IF ShouldClear(c) THEN <<0, 0, 0, 0>> ELSE ce_pixels.px[c]

\* A cleared pixel next to a later opaque light pixel that had exactly 5
\* transparent neighbours before the pass and is kept.
C11_Witness ==
    /\ cepc = "done"
    /\ \E c, d \in CleanInteriorSet :
          /\ d = <<c[1], c[2] + 1>>
          /\ ShouldClear(c) /\ ce_result.px[c] = <<0, 0, 0, 0>>
          /\ ce_pixels.px[d] = <<200, 200, 200, 255>>
          /\ Cardinality(OriginallyTransparentAround(d)) = 5
          /\ ce_result.px[d] = ce_pixels.px[d]

----------------------------------------------------------------------------
(* remove_background_flood_fill: enqueuing and termination *)

\* The total absolute RGB channel difference of two colours.
TrueColorDiff(p, q) == Abs(p[1] - q[1]) + Abs(p[2] - q[2]) + Abs(p[3] - q[3])

FloodAboutToClear ==
    /\ fpc = "loop" /\ queue # <<>>
    /\ ~visited[Head(queue)]
    /\ IsLight(result.px[Head(queue)])

\* The neighbours of the popped pixel, in loop order, that are not visited
\* once the popped pixel is marked and whose colour is within 60 of the colour
\* the popped pixel has before it is cleared.
CloseToSeed ==
    LET c == Head(queue)
        seed == result.px[c]
        cand == [k \in 1 .. 9 |-> <<c[1] + Offsets[k][1], c[2] + Offsets[k][2]>>]
        close(n) == /\ n \in DOMAIN result.px
                    /\ n # c /\ ~visited[n]
                    /\ TrueColorDiff(seed, result.px[n]) < 60
    IN  SelectSeq(cand, close)

\* C12: when a light pixel is popped and cleared, exactly its not yet visited
\* neighbours within a total channel difference of 60 of the colour it had
\* when popped are appended to the queue.
C12_EnqueueBySeedColour ==
    [][FloodAboutToClear => queue' = Tail(queue) \o CloseToSeed]_vars

\* C13: the visited marking only grows, a visited cell popped again is left
\* alone and an unvisited cell that is popped is marked, so that no cell is
\* tested or cleared twice, and the queue becomes empty and the call returns.
C13_FloodTerminates ==
    /\ [][\A c \in DOMAIN visited : visited[c] => visited'[c]]_vars
    /\ [][(fpc = "loop" /\ queue # <<>>) =>
            IF visited[Head(queue)]
            THEN result' = result /\ visited' = visited
            ELSE visited'[Head(queue)]]_vars
    /\ <>(queue = <<>> /\ fpc = "done")

\* A cell that was cleared is in the queue again, twice, enqueued by its
\* neighbours.
C13_Witness ==
    /\ fpc = "loop"
    /\ \E i, j \in 1 .. Len(queue) :
          /\ i < j /\ queue[i] = queue[j]
          /\ visited[queue[i]]
          /\ result.px[queue[i]] = Cleared
          /\ img_array.px[queue[i]] # Cleared

----------------------------------------------------------------------------
(* process_single_cat_image: what a returned path stands for *)

\* C14: a path returned by process_single_cat_image names an existing file
\* that holds the output of the selected strategy (the best in-band one, or
\* white_gray on fallback), also when the rename of the temporary result
\* failed after the best method was recorded.
C14_ReturnedPathHoldsResult ==
    (SingleReturned /\ single_ret # None) =>
        /\ fs[single_ret].kind = "image"
        /\ fs[single_ret].img =
              ApplyMethod(SingleSrc,
                          IF best_method # None THEN best_method ELSE "white_gray", nep50)

====
